---- MODULE Spec2Model ----
(***************************************************************************)
(* Model of src/document_reader.py: the resume pipeline                    *)
(*   main: path validation -> read_docx / read_pdf -> parse_resume ->      *)
(*         create_database -> insert_data -> verification queries -> close *)
(* run under the try/except of the __main__ block.                         *)
(*                                                                         *)
(* Text is modelled character by character on TLA+ strings (TLC evaluates  *)
(* Len, \o, SubSeq, Head and Tail on strings).  TLA+ string literals are   *)
(* ASCII only, so the two non-ASCII literals of the source are written     *)
(* with ASCII characters that occur nowhere else in the modelled text:     *)
(*   ENDASH "~" stands for U+2013 (en dash),                               *)
(*   BULLET "@" stands for U+2022 (bullet).                                *)
(***************************************************************************)
EXTENDS Integers, Sequences, FiniteSets, TLC

(***************************************************************************)
(* Python str primitives                                                   *)
(***************************************************************************)
ENDASH == "~"
BULLET == "@"

Chr(s, k) == SubSeq(s, k, k)

LowerLetters == "abcdefghijklmnopqrstuvwxyz"
UpperLetters == "ABCDEFGHIJKLMNOPQRSTUVWXYZ"
Digits == "0123456789"

CharsOf(s) == {Chr(s, k) : k \in 1..Len(s)}
LowerSet == CharsOf(LowerLetters)
UpperSet == CharsOf(UpperLetters)
DigitSet == CharsOf(Digits)
Whitespace == {" "}

ToUpper == [c \in LowerSet |->
              Chr(UpperLetters, CHOOSE k \in 1..26 : Chr(LowerLetters, k) = c)]

UpperChar(c) == IF c \in LowerSet THEN ToUpper[c] ELSE c

\* str.upper()
RECURSIVE Upper(_)
Upper(s) == IF s = "" THEN "" ELSE UpperChar(Head(s)) \o Upper(Tail(s))

\* str.isupper(): at least one cased character and no lower-case one
IsUpper(s) ==
    /\ \E k \in 1..Len(s) : Chr(s, k) \in UpperSet
    /\ \A k \in 1..Len(s) : Chr(s, k) \notin LowerSet

\* str.startswith(p)
StartsWith(s, p) == Len(s) >= Len(p) /\ SubSeq(s, 1, Len(p)) = p

\* str.endswith(p)
EndsWith(s, p) == Len(s) >= Len(p) /\ SubSeq(s, Len(s) - Len(p) + 1, Len(s)) = p

\* position of the first occurrence of sub in s, 0 when there is none (str.find + 1)
Find(s, sub) ==
    LET hits == {k \in 1..(Len(s) - Len(sub) + 1) : SubSeq(s, k, k + Len(sub) - 1) = sub}
    IN  IF hits = {} THEN 0 ELSE CHOOSE k \in hits : \A j \in hits : k <= j

\* sub in s
Contains(s, sub) == Find(s, sub) > 0

\* any(keyword in line for keyword in keywords)
AnyKeyword(line, keywords) == \E kw \in keywords : Contains(line, kw)

\* str.lstrip() / str.rstrip() / str.strip()
RECURSIVE LStrip(_)
LStrip(s) == IF s # "" /\ Head(s) \in Whitespace THEN LStrip(Tail(s)) ELSE s

RECURSIVE RStrip(_)
RStrip(s) == IF s # "" /\ Chr(s, Len(s)) \in Whitespace
             THEN RStrip(SubSeq(s, 1, Len(s) - 1)) ELSE s

Strip(s) == RStrip(LStrip(s))

\* str.split(sep): every occurrence of sep separates two pieces
RECURSIVE Split(_, _)
Split(s, sep) ==
    LET k == Find(s, sep)
    IN  IF k = 0 THEN <<s>>
        ELSE <<SubSeq(s, 1, k - 1)>> \o Split(SubSeq(s, k + Len(sep), Len(s)), sep)

\* str.split(sep, 1): only the first occurrence of sep separates
SplitOnce(s, sep) ==
    LET k == Find(s, sep)
    IN  IF k = 0 THEN <<s>>
        ELSE <<SubSeq(s, 1, k - 1), SubSeq(s, k + Len(sep), Len(s))>>

\* str.replace(old, new): every non-overlapping occurrence, left to right
RECURSIVE Replace(_, _, _)
Replace(s, old, new) ==
    LET k == Find(s, old)
    IN  IF k = 0 THEN s
        ELSE SubSeq(s, 1, k - 1) \o new \o Replace(SubSeq(s, k + Len(old), Len(s)), old, new)

\* sep.join(parts)
RECURSIVE Join(_, _)
Join(sep, parts) ==
    IF Len(parts) = 0 THEN ""
    ELSE IF Len(parts) = 1 THEN parts[1]
    ELSE parts[1] \o sep \o Join(sep, Tail(parts))

\* [f.strip() for f in parts]
StripAll(parts) == [k \in 1..Len(parts) |-> Strip(parts[k])]

(***************************************************************************)
(* The two regular expressions of the Projects branch                      *)
(***************************************************************************)
\* number of leading characters of s that lie in set
RECURSIVE Span(_, _)
Span(s, set) == IF s # "" /\ Head(s) \in set THEN 1 + Span(Tail(s), set) ELSE 0

\* length of the match of ^\d+\.\s+ at the start of line, 0 when it does not match
NumberedPrefixLen(line) ==
    LET d == Span(line, DigitSet)
        rest == SubSeq(line, d + 1, Len(line))
        w == Span(SubSeq(rest, 2, Len(rest)), Whitespace)
    IN  IF d > 0 /\ StartsWith(rest, ".") /\ w > 0 THEN d + 1 + w ELSE 0

\* re.sub(r'^\d+\.\s+|^\*\*|\*\*$', '', line): at position 0 the alternatives are
\* tried in order, so at most one of the two anchored prefixes is removed; a
\* trailing ** is removed when it does not overlap the removed prefix
StripTitleMarkup(line) ==
    LET n == NumberedPrefixLen(line)
        p == IF n > 0 THEN n ELSE IF StartsWith(line, "**") THEN 2 ELSE 0
        rest == SubSeq(line, p + 1, Len(line))
    IN  IF EndsWith(rest, "**") THEN SubSeq(rest, 1, Len(rest) - 2) ELSE rest

\* re.match(r'^\d+\.\s+', line) or line.isupper() or line.startswith('**')
IsProjectTitle(line) ==
    NumberedPrefixLen(line) > 0 \/ IsUpper(line) \/ StartsWith(line, "**")

\* line.startswith('-') or line.startswith(BULLET)
IsBulleted(line) == StartsWith(line, "-") \/ StartsWith(line, BULLET)

\* line.replace('-', '').replace(BULLET, '').strip()
StripBullets(line) == Strip(Replace(Replace(line, "-", ""), BULLET, ""))

(***************************************************************************)
(* parse_resume                                                            *)
(***************************************************************************)
HeadingLabels == {"EDUCATION", "TECHNICAL SKILLS", "PROJECTS", "EXPERIENCE",
                  "FORAGE PROJECTS", "MARKETING PROJECTS", "CERTIFICATIONS"}
ProjectAliases == {"FORAGE PROJECTS", "MARKETING PROJECTS"}

InstitutionKeywords == {"University", "Institute", "College"}
DegreeKeywords == {"Master", "Bachelor", "Diploma"}
LocationKeywords == {"India", "USA", "MA", "WB", "OD"}
RoleKeywords == {"Manager", "Executive", "Intern", "Expert", "Founder"}
CourseworkPrefix == "Relevant Coursework: "

\* Python's None for current_section (a string no upper-cased label equals), and
\* for project_title: the optional title is <<>> (None) or <<text>>
NoSection == "None"
NoTitle == <<>>

\* the truth value of project_title: neither None nor ''
TitleSet(t) == t # NoTitle /\ t[1] # ""

EmptyData == [Education |-> <<>>, TechnicalSkills |-> <<>>, Projects |-> <<>>,
              Experience |-> <<>>, Certifications |-> <<>>]

\* the locals of parse_resume before the loop; exc is the exception raised, "" for none
InitialSection == NoSection

ParserStart == [data |-> EmptyData, current_section |-> InitialSection,
                project_title |-> NoTitle, project_desc |-> <<>>, exc |-> ""]

\* IsHeading without the upper(): only the upper-case spelling is a heading
IsHeadingCaseSensitive(line) == line \in HeadingLabels

\* line.upper() in [...the seven labels...]
IsHeading(line) == Upper(line) \in HeadingLabels

\* SectionOf without the merge of the two aliases
SectionOfUnmerged(line) == Upper(line)

\* current_section after a heading line: the aliases merge into PROJECTS
SectionOf(line) ==
    IF Upper(line) \in ProjectAliases THEN "PROJECTS" ELSE Upper(line)

\* NewEducation without the strip() of the two pieces
NewEducationUnstripped(line) ==
    LET parts == Split(line, ENDASH)
    IN  [institution |-> parts[1],
         location |-> IF Len(parts) > 1 THEN parts[2] ELSE "",
         degree |-> "", dates |-> "", coursework |-> ""]

NewEducation(line) ==
    LET parts == Split(line, ENDASH)
    IN  [institution |-> Strip(parts[1]),
         location |-> IF Len(parts) > 1 THEN Strip(parts[2]) ELSE "",
         degree |-> "", dates |-> "", coursework |-> ""]

\* data[section][-1][field] = value: IndexError on an empty list
SetLast(ps, section, field, value) ==
    IF Len(ps.data[section]) = 0 THEN [ps EXCEPT !.exc = "IndexError"]
    ELSE [ps EXCEPT !.data[section][Len(ps.data[section])][field] = value]

StartsEducation(line) == Contains(line, ENDASH) /\ AnyKeyword(line, InstitutionKeywords)

\* EducationLine that applies every refining rule the line matches, not only the first
EducationLineEveryRule(ps, line) ==
    IF StartsEducation(line)
    THEN [ps EXCEPT !.data.Education = Append(@, NewEducation(line))]
    ELSE LET a == IF AnyKeyword(line, DegreeKeywords)
                  THEN SetLast(ps, "Education", "degree", line) ELSE ps
         IN  IF Contains(line, "|") /\ a.exc = ""
             THEN SetLast(a, "Education", "dates", line) ELSE a

EducationLine(ps, line) ==
    IF StartsEducation(line)
    THEN [ps EXCEPT !.data.Education = Append(@, NewEducation(line))]
    ELSE IF AnyKeyword(line, DegreeKeywords) THEN SetLast(ps, "Education", "degree", line)
    ELSE IF Contains(line, "|") THEN SetLast(ps, "Education", "dates", line)
    ELSE IF Contains(line, "Relevant Coursework")
    THEN SetLast(ps, "Education", "coursework", Replace(line, CourseworkPrefix, ""))
    ELSE ps

\* category, skills = line.split(':', 1): ValueError unless there are two pieces
SkillsLine(ps, line) ==
    IF StartsWith(line, BULLET)
    THEN LET parts == SplitOnce(line, ":")
         IN  IF Len(parts) # 2 THEN [ps EXCEPT !.exc = "ValueError"]
             ELSE [ps EXCEPT !.data.TechnicalSkills =
                      Append(@, [category |-> Strip(Replace(parts[1], BULLET, "")),
                                 skills |-> StripAll(Split(parts[2], ","))])]
    ELSE ps

ProjectEntry(title, desc) == [title |-> title[1], description |-> Join(" ", desc)]

\* PendingProject that asks for a title only
PendingTitleOnly(ps) == TitleSet(ps.project_title)

\* if project_title and project_desc: append the pending project
PendingProject(ps) == TitleSet(ps.project_title) /\ Len(ps.project_desc) > 0

ProjectsLine(ps, line) ==
    IF IsProjectTitle(line)
    THEN LET flushed ==
                 IF PendingProject(ps)
                 THEN [ps EXCEPT !.data.Projects =
                          Append(@, ProjectEntry(ps.project_title, ps.project_desc)),
                                 !.project_desc = <<>>]
                 ELSE ps
         IN  [flushed EXCEPT !.project_title = <<Strip(StripTitleMarkup(line))>>]
    ELSE IF IsBulleted(line)
    THEN IF TitleSet(ps.project_title)
         THEN [ps EXCEPT !.project_desc = Append(@, StripBullets(line))]
         ELSE ps
    ELSE IF TitleSet(ps.project_title)
    THEN [ps EXCEPT !.project_desc = Append(@, Strip(line))]
    ELSE ps

NewExperience(line) ==
    LET parts == Split(line, ENDASH)
    IN  [company |-> Strip(parts[1]), location |-> Strip(parts[2]),
         role |-> "", dates |-> "", responsibilities |-> <<>>]

StartsExperience(line) == Contains(line, ENDASH) /\ AnyKeyword(line, LocationKeywords)

ExperienceLine(ps, line) ==
    IF StartsExperience(line)
    THEN [ps EXCEPT !.data.Experience = Append(@, NewExperience(line))]
    ELSE IF AnyKeyword(line, RoleKeywords) THEN SetLast(ps, "Experience", "role", line)
    ELSE IF Contains(line, "|") THEN SetLast(ps, "Experience", "dates", line)
    ELSE IF IsBulleted(line)
    THEN IF Len(ps.data.Experience) = 0 THEN [ps EXCEPT !.exc = "IndexError"]
         ELSE [ps EXCEPT !.data.Experience[Len(ps.data.Experience)].responsibilities =
                  Append(@, StripBullets(line))]
    ELSE ps

CertificationsLine(ps, line) ==
    IF IsBulleted(line)
    THEN [ps EXCEPT !.data.Certifications = Append(@, StripBullets(line))]
    ELSE ps

\* ParseStep with the last elif written as else: an undetermined section is treated
\* as Certifications
ParseStepLastElse(ps, line) ==
    IF IsHeading(line) THEN [ps EXCEPT !.current_section = SectionOf(line)]
    ELSE IF Strip(line) = "" THEN ps
    ELSE IF ps.current_section = "EDUCATION" THEN EducationLine(ps, line)
    ELSE IF ps.current_section = "TECHNICAL SKILLS" THEN SkillsLine(ps, line)
    ELSE IF ps.current_section = "PROJECTS" THEN ProjectsLine(ps, line)
    ELSE IF ps.current_section = "EXPERIENCE" THEN ExperienceLine(ps, line)
    ELSE CertificationsLine(ps, line)

\* ParseStep that saves and resets the pending project at every heading
ParseStepFlushingAtHeading(ps, line) ==
    IF IsHeading(line)
    THEN [ps EXCEPT !.current_section = SectionOf(line),
                    !.data.Projects = IF PendingProject(ps)
                                      THEN Append(@, ProjectEntry(ps.project_title,
                                                                  ps.project_desc))
                                      ELSE @,
                    !.project_title = NoTitle, !.project_desc = <<>>]
    ELSE IF Strip(line) = "" THEN ps
    ELSE IF ps.current_section = "EDUCATION" THEN EducationLine(ps, line)
    ELSE IF ps.current_section = "TECHNICAL SKILLS" THEN SkillsLine(ps, line)
    ELSE IF ps.current_section = "PROJECTS" THEN ProjectsLine(ps, line)
    ELSE IF ps.current_section = "EXPERIENCE" THEN ExperienceLine(ps, line)
    ELSE IF ps.current_section = "CERTIFICATIONS" THEN CertificationsLine(ps, line)
    ELSE ps

\* one iteration of `for line in lines`
ParseStep(ps, line) ==
    IF IsHeading(line) THEN [ps EXCEPT !.current_section = SectionOf(line)]
    ELSE IF Strip(line) = "" THEN ps
    ELSE IF ps.current_section = "EDUCATION" THEN EducationLine(ps, line)
    ELSE IF ps.current_section = "TECHNICAL SKILLS" THEN SkillsLine(ps, line)
    ELSE IF ps.current_section = "PROJECTS" THEN ProjectsLine(ps, line)
    ELSE IF ps.current_section = "EXPERIENCE" THEN ExperienceLine(ps, line)
    ELSE IF ps.current_section = "CERTIFICATIONS" THEN CertificationsLine(ps, line)
    ELSE ps

\* FinalFlush that puts the last project in front of the others
FinalFlushPrepend(ps) ==
    IF PendingProject(ps)
    THEN [ps EXCEPT !.data.Projects =
             <<ProjectEntry(ps.project_title, ps.project_desc)>> \o @]
    ELSE ps

\* after the loop: save the last project if it exists
FinalFlush(ps) ==
    IF PendingProject(ps)
    THEN [ps EXCEPT !.data.Projects =
             Append(@, ProjectEntry(ps.project_title, ps.project_desc))]
    ELSE ps

\* parse_resume(lines) as a function: the parser state when it returns or raises
RECURSIVE ParseFrom(_, _)
ParseFrom(ps, lines) ==
    IF ps.exc # "" THEN ps
    ELSE IF Len(lines) = 0 THEN FinalFlush(ps)
    ELSE ParseFrom(ParseStep(ps, Head(lines)), Tail(lines))

parse_resume(lines) == ParseFrom(ParserStart, lines)

(***************************************************************************)
(* read_docx / read_pdf                                                    *)
(***************************************************************************)
\* the non-blank entries of raw, stripped, in order
RECURSIVE NonBlankStripped(_)
NonBlankStripped(raw) ==
    IF Len(raw) = 0 THEN <<>>
    ELSE (IF Strip(Head(raw)) # "" THEN <<Strip(Head(raw))>> ELSE <<>>)
         \o NonBlankStripped(Tail(raw))

\* the paragraphs of the document, in order
read_docx(paragraphs) == NonBlankStripped(paragraphs)

\* text.split('\n') of every page with text, concatenated in page order
read_pdf(page_lines) == NonBlankStripped(page_lines)

(***************************************************************************)
(* create_database / insert_data                                           *)
(***************************************************************************)
Tables == {"Education", "TechnicalSkills", "Projects", "Experience", "Certifications"}
TableOrder == <<"Education", "TechnicalSkills", "Projects", "Experience", "Certifications">>

\* CreateTable as DROP TABLE IF EXISTS followed by CREATE TABLE: the table is made anew
CreateTableAnew(st, t) ==
    [tables |-> st.tables \cup {t}, rows |-> [st.rows EXCEPT ![t] = <<>>]]

\* CREATE TABLE IF NOT EXISTS t: a table that exists keeps its rows
CreateTable(st, t) ==
    IF t \in st.tables THEN st
    ELSE [tables |-> st.tables \cup {t}, rows |-> [st.rows EXCEPT ![t] = <<>>]]

RECURSIVE CreateTables(_, _)
CreateTables(st, ts) ==
    IF Len(ts) = 0 THEN st ELSE CreateTables(CreateTable(st, Head(ts)), Tail(ts))

\* the VALUES tuple of the INSERT for one entry of a section
RowOf(t, e) ==
    IF t = "Education"
    THEN [institution |-> e.institution, location |-> e.location, degree |-> e.degree,
          dates |-> e.dates, coursework |-> e.coursework]
    ELSE IF t = "TechnicalSkills"
    THEN [category |-> e.category, skills |-> Join(", ", e.skills)]
    ELSE IF t = "Projects"
    THEN [title |-> e.title, description |-> e.description]
    ELSE IF t = "Experience"
    THEN [company |-> e.company, location |-> e.location, role |-> e.role,
          dates |-> e.dates, responsibilities |-> Join("; ", e.responsibilities)]
    ELSE [name |-> e]

RowsOf(t, record) == [k \in 1..Len(record[t]) |-> RowOf(t, record[t][k])]

\* InsertRows as an upsert: a row the table already holds is not added again
InsertRowsUpsert(old, new) ==
    old \o SelectSeq(new, LAMBDA r : \A k \in 1..Len(old) : old[k] # r)

\* INSERT INTO t ...: the row is appended, the rows already there are kept
InsertRows(old, new) == old \o new

\* every INSERT of insert_data, then conn.commit()
InsertAll(rs, record) == [t \in Tables |-> InsertRows(rs[t], RowsOf(t, record))]

\* the INSERT statements of insert_data in execution order, by table
RECURSIVE InsertOps(_, _)
InsertOps(record, ts) ==
    IF Len(ts) = 0 THEN <<>>
    ELSE [k \in 1..Len(record[Head(ts)]) |-> "insert"] \o InsertOps(record, Tail(ts))

(***************************************************************************)
(* Bounds and inputs                                                       *)
(***************************************************************************)
\* longest line sequence enumerated for parse_resume called on its own
MaxLines == 3
\* longest raw document enumerated for a run of main
MaxParagraphs == 2
\* runs of the program against the same store
MaxRuns == 2

RECURSIVE SeqsUpTo(_, _)
SeqsUpTo(S, n) ==
    IF n = 0 THEN {<<>>}
    ELSE LET shorter == SeqsUpTo(S, n - 1)
         IN  shorter \cup {Append(q, x) : q \in {r \in shorter : Len(r) = n - 1}, x \in S}

\* the documents of the testable properties of the specification
EducationSample == <<"EDUCATION", "MIT ~ Cambridge, MA", "Master of Science",
                     "Aug 2021 | May 2023">>
EducationKeywordSample == <<"EDUCATION", "MIT University ~ Cambridge, MA",
                            "Master of Science", "Aug 2021 | May 2023">>
ProjectsSample == <<"PROJECTS", "1. Alpha System", "- built a thing", "- scaled it up",
                    "2. BETA TOOL", "more detail line">>
SkillsSample == <<"TECHNICAL SKILLS", "Languages: Python", "@ Languages: Python, Go, Rust">>

\* a project whose description is pending when another section begins, continued in
\* a later Projects block
InterleavedSample == <<"PROJECTS", "1. A", "d", "EXPERIENCE", "Acme ~ Pune, India",
                       "Forage Projects", "e", "@ f", "2. B", "g">>
\* two Education entries, then lines that refine the second
TwoEntriesSample == <<"Education", "X College ~ Y, MA", "Z Institute ~ W",
                      "Master | Intern", "Relevant Coursework: a">>

\* entry-starting lines that also match the later rules of their section
OverlapSample == <<"Experience", "Intern Co ~ Pune, India | 2020", "- Manager | x",
                   "Education", "Bachelor Institute ~ Z | 2019",
                   "Relevant Coursework: a | b">>

SampleDocs == {EducationSample, EducationKeywordSample, ProjectsSample, SkillsSample,
               InterleavedSample, TwoEntriesSample, OverlapSample,
               <<"Marketing Projects", "1. **Alpha**", "- built a thing">>,
               <<"Technical Skills", "@ P">>,
               <<"certifications", "- b-c", "@ L: a, b", "d", "Projects:">>,
               <<"education", "Education Section", "X Institute ~ Y", "EDUCATION:">>,
               <<"EXPERIENCE", "Acme ~ Pune, India", "Founder", "2020 | 2021",
                 "- led a team", "CERTIFICATIONS", "- AWS Certified">>}

ParsePool == {"Education", "PROJECTS", "Forage Projects", "EXPERIENCE",
              "X College ~ Y, MA", "Master | Intern", "a | b",
              "@ L: a, b", "- b-c", "1. A", "d", "**"}

ParseDocs == SeqsUpTo(ParsePool, MaxLines) \cup SampleDocs

RawPool == {"PROJECTS", " Education ", "1. A", "- b", " ", "X College ~ Y, MA", "Master"}

RawDocs == SeqsUpTo(RawPool, MaxParagraphs) \cup SampleDocs

Paths == {"Master Resume.docx", "resume.pdf", "resume.txt", "resume.DOCX"}

\* Supported with the suffix compared without regard to case
SupportedAnyCase(path) ==
    EndsWith(Upper(path), ".DOCX") \/ EndsWith(Upper(path), ".PDF")

\* file_path.endswith('.docx') or file_path.endswith('.pdf')
Supported(path) == EndsWith(path, ".docx") \/ EndsWith(path, ".pdf")

SupportedPaths == {p \in Paths : Supported(p)}

\* a file on disk (or its absence): the path given to main and what it holds
Files ==
    {[path |-> p, exists |-> FALSE, raw |-> <<>>] : p \in Paths}
    \cup {[path |-> p, exists |-> TRUE, raw |-> <<>>] : p \in Paths \ SupportedPaths}
    \cup {[path |-> p, exists |-> TRUE, raw |-> d] : p \in SupportedPaths, d \in RawDocs}

(***************************************************************************)
(* Exceptions: the type and the message the handler prints                 *)
(***************************************************************************)
NoError == [type |-> "", msg |-> ""]
FileNotFound == [type |-> "FileNotFoundError", msg |-> "File not found."]
UnsupportedFormat == [type |-> "ValueError",
                      msg |-> "Unsupported file format. Use .docx or .pdf."]
ReaderError == [type |-> "ReaderError", msg |-> "the document cannot be read"]
StoreError == [type |-> "sqlite3.Error", msg |-> "the database operation failed"]

\* the exceptions parse_resume raises
ParseError(exc) ==
    IF exc = "IndexError" THEN [type |-> exc, msg |-> "list index out of range"]
    ELSE IF exc = "ValueError"
    THEN [type |-> exc, msg |-> "not enough values to unpack (expected 2, got 1)"]
    ELSE NoError

(***************************************************************************)
(* State                                                                   *)
(***************************************************************************)
VARIABLES
    file,             \* the input file: path, whether it exists, its raw text
    pc,               \* position of the run
    lines,            \* the lines given to parse_resume
    idx,              \* index of the next line of the for loop
    data,             \* parse_resume's record
    current_section,
    project_title,
    project_desc,
    error,            \* the exception propagating out of main, NoError for none
    tables,           \* the store: the tables that exist
    rows,             \* the store: the committed rows of each table
    conn,             \* the connection of this run: none, open, closed
    ops,              \* the store operations of this run, in order
    stdout,           \* what this run printed
    runs,             \* runs started against the store
    persisted         \* insert_data calls that committed, over all runs

parser == <<lines, idx, data, current_section, project_title, project_desc>>
store == <<tables, rows>>
vars == <<file, pc, lines, idx, data, current_section, project_title, project_desc,
          error, tables, rows, conn, ops, stdout, runs, persisted>>

\* the locals of parse_resume as one parser state
ParserState == [data |-> data, current_section |-> current_section,
                project_title |-> project_title, project_desc |-> project_desc,
                exc |-> ""]

NoStore == /\ tables = {}
           /\ rows = [t \in Tables |-> <<>>]
           /\ conn = "none"
           /\ ops = <<>>
           /\ runs = 1
           /\ persisted = 0

FreshParser == /\ idx = 1
               /\ data = ParserStart.data
               /\ current_section = ParserStart.current_section
               /\ project_title = ParserStart.project_title
               /\ project_desc = ParserStart.project_desc

\* a run of the program: main(file_path) under the handler of __main__
Init == /\ file \in Files
        /\ pc = "main"
        /\ lines = <<>>
        /\ FreshParser
        /\ error = NoError
        /\ stdout = <<>>
        /\ NoStore

\* parse_resume called on its own with a line sequence
InitParse == /\ file = [path |-> "", exists |-> FALSE, raw |-> <<>>]
             /\ pc = "parse_resume"
             /\ lines \in ParseDocs
             /\ FreshParser
             /\ error = NoError
             /\ stdout = <<>>
             /\ NoStore

(***************************************************************************)
(* Actions                                                                 *)
(***************************************************************************)
\* main, lines 205-206: the path must exist
MainValidate ==
    /\ pc = "main"
    /\ IF file.exists
       THEN pc' = "load" /\ error' = error
       ELSE pc' = "except" /\ error' = FileNotFound
    /\ UNCHANGED <<file, parser, store, conn, ops, stdout, runs, persisted>>

\* MainLoad that opens the store and creates the tables before the document is parsed
MainLoadOpensStore ==
    /\ pc = "load"
    /\ \E readable \in BOOLEAN :
         IF ~ Supported(file.path)
         THEN pc' = "except" /\ error' = UnsupportedFormat /\ lines' = lines
         ELSE IF ~ readable
         THEN pc' = "except" /\ error' = ReaderError /\ lines' = lines
         ELSE /\ pc' = "parse_resume"
              /\ error' = error
              /\ lines' = IF EndsWith(file.path, ".docx")
                          THEN read_docx(file.raw) ELSE read_pdf(file.raw)
    /\ tables' = Tables
    /\ conn' = "open"
    /\ ops' = ops \o <<"connect", "create", "create", "create", "create", "create", "commit">>
    /\ UNCHANGED <<file, idx, data, current_section, project_title, project_desc,
                   rows, stdout, runs, persisted>>

\* main, lines 208-213: dispatch on the suffix; the reader may raise on a damaged file
MainLoad ==
    /\ pc = "load"
    /\ \E readable \in BOOLEAN :
         IF ~ Supported(file.path)
         THEN pc' = "except" /\ error' = UnsupportedFormat /\ lines' = lines
         ELSE IF ~ readable
         THEN pc' = "except" /\ error' = ReaderError /\ lines' = lines
         ELSE /\ pc' = "parse_resume"
              /\ error' = error
              /\ lines' = IF EndsWith(file.path, ".docx")
                          THEN read_docx(file.raw) ELSE read_pdf(file.raw)
    /\ UNCHANGED <<file, idx, data, current_section, project_title, project_desc,
                   store, conn, ops, stdout, runs, persisted>>

\* parse_resume, lines 40-99: one iteration of the loop
ParseLine ==
    /\ pc = "parse_resume"
    /\ idx <= Len(lines)
    /\ LET ps == ParseStep(ParserState, lines[idx])
       IN  /\ data' = ps.data
           /\ current_section' = ps.current_section
           /\ project_title' = ps.project_title
           /\ project_desc' = ps.project_desc
           /\ error' = ParseError(ps.exc)
           /\ pc' = IF ps.exc # "" THEN "except" ELSE pc
           /\ idx' = IF ps.exc # "" THEN idx ELSE idx + 1
    /\ UNCHANGED <<file, lines, store, conn, ops, stdout, runs, persisted>>

\* parse_resume, lines 101-105: the final flush and the return
ParseReturn ==
    /\ pc = "parse_resume"
    /\ idx > Len(lines)
    /\ data' = FinalFlush(ParserState).data
    /\ pc' = "create_database"
    /\ UNCHANGED <<file, lines, idx, current_section, project_title, project_desc,
                   error, store, conn, ops, stdout, runs, persisted>>

\* create_database: connect, the five CREATE TABLE IF NOT EXISTS, commit.  Statement
\* number n of these seven may raise (n = 0: none does): a failed connect opens
\* nothing; a CREATE TABLE takes effect when it is executed, so the tables made
\* before a failing statement stay, and the connection opened stays open
CreateDatabase ==
    /\ pc = "create_database"
    /\ \E n \in 0..(Len(TableOrder) + 2) :
         IF n = 0
         THEN LET st == CreateTables([tables |-> tables, rows |-> rows], TableOrder)
              IN  /\ tables' = st.tables
                  /\ rows' = st.rows
                  /\ conn' = "open"
                  /\ ops' = ops \o <<"connect">> \o [k \in 1..Len(TableOrder) |-> "create"]
                                 \o <<"commit">>
                  /\ pc' = "insert_data"
                  /\ error' = error
         ELSE IF n = 1
         THEN /\ pc' = "except"
              /\ error' = StoreError
              /\ UNCHANGED <<store, conn, ops>>
         ELSE LET made == IF n - 2 < Len(TableOrder) THEN n - 2 ELSE Len(TableOrder)
                  st == CreateTables([tables |-> tables, rows |-> rows],
                                     SubSeq(TableOrder, 1, made))
              IN  /\ tables' = st.tables
                  /\ rows' = st.rows
                  /\ conn' = "open"
                  /\ ops' = ops \o <<"connect">> \o [k \in 1..made |-> "create"]
                  /\ pc' = "except"
                  /\ error' = StoreError
    /\ UNCHANGED <<file, parser, stdout, runs, persisted>>

\* insert_data: the INSERTs section by section, then one commit; when INSERT
\* number n+1 raises, the n rows before it are never committed
InsertData ==
    /\ pc = "insert_data"
    /\ LET all == InsertOps(data, TableOrder)
       IN  \E n \in 0..Len(all) :
             IF n = Len(all)
             THEN /\ rows' = InsertAll(rows, data)
                  /\ ops' = ops \o all \o <<"commit">>
                  /\ persisted' = persisted + 1
                  /\ pc' = "verify"
                  /\ error' = error
             ELSE /\ ops' = ops \o SubSeq(all, 1, n)
                  /\ pc' = "except"
                  /\ error' = StoreError
                  /\ UNCHANGED <<rows, persisted>>
    /\ UNCHANGED <<file, parser, tables, conn, stdout, runs>>

\* main, lines 223-228: the two verification queries
VerifyQueries ==
    /\ pc = "verify"
    /\ \E ok \in BOOLEAN :
         IF ok
         THEN /\ stdout' = stdout \o
                    <<[label |-> "Sample Projects:",
                       value |-> [k \in 1..(IF Len(rows.Projects) < 5
                                            THEN Len(rows.Projects) ELSE 5) |->
                                     rows.Projects[k].title]],
                      [label |-> "Education:",
                       value |-> [k \in 1..Len(rows.Education) |->
                                     <<rows.Education[k].institution,
                                       rows.Education[k].degree>>]]>>
              /\ ops' = ops \o <<"select", "select">>
              /\ pc' = "close"
              /\ error' = error
         ELSE /\ pc' = "except"
              /\ error' = StoreError
              /\ UNCHANGED <<stdout, ops>>
    /\ UNCHANGED <<file, parser, store, conn, runs, persisted>>

\* main, line 230
CloseConnection ==
    /\ pc = "close"
    /\ conn' = "closed"
    /\ ops' = Append(ops, "close")
    /\ pc' = "done"
    /\ UNCHANGED <<file, parser, error, store, stdout, runs, persisted>>

\* HandleError as a handler that reports the error and runs main once more
HandleErrorRetries ==
    /\ pc = "except"
    /\ stdout' = Append(stdout, [label |-> "Error:", value |-> error.msg])
    /\ pc' = "main"
    /\ error' = NoError
    /\ UNCHANGED <<file, parser, store, conn, ops, runs, persisted>>

\* __main__, lines 237-238: the handler prints the error and the run ends
HandleError ==
    /\ pc = "except"
    /\ stdout' = Append(stdout, [label |-> "Error:", value |-> error.msg])
    /\ pc' = "handled"
    /\ UNCHANGED <<file, parser, error, store, conn, ops, runs, persisted>>

\* the program is started again on the same file and the same resume.db
RunAgain ==
    /\ pc \in {"done", "handled"}
    /\ runs < MaxRuns
    /\ runs' = runs + 1
    /\ pc' = "main"
    /\ lines' = <<>>
    /\ idx' = 1
    /\ data' = ParserStart.data
    /\ current_section' = ParserStart.current_section
    /\ project_title' = ParserStart.project_title
    /\ project_desc' = ParserStart.project_desc
    /\ error' = NoError
    /\ stdout' = <<>>
    /\ conn' = "none"
    /\ ops' = <<>>
    /\ UNCHANGED <<file, store, persisted>>

Next == \/ MainValidate
        \/ MainLoad
        \/ ParseLine
        \/ ParseReturn
        \/ CreateDatabase
        \/ InsertData
        \/ VerifyQueries
        \/ CloseConnection
        \/ HandleError
        \/ RunAgain

Spec == Init /\ [][Next]_vars

NextParse == ParseLine \/ ParseReturn

SpecParse == InitParse /\ [][NextParse]_vars

(***************************************************************************)
(* Properties                                                              *)
(***************************************************************************)
\* parse_resume has returned its record (the caller's next step is pending)
ParseReturned == pc = "create_database"
\* parse_resume has raised
ParseRaised == pc = "except" /\ error.type \in {"IndexError", "ValueError"}
ParseEnded == ParseReturned \/ ParseRaised

\* a and b are equal up to the case of their letters
SameLetters(a, b) ==
    /\ Len(a) = Len(b)
    /\ \A k \in 1..Len(a) :
         \/ Chr(a, k) = Chr(b, k)
         \/ \E j \in 1..26 : {Chr(a, k), Chr(b, k)} = {Chr(LowerLetters, j), Chr(UpperLetters, j)}

\* line is a letter-case variant of one of the seven labels
IsLabelVariant(line) == \E h \in HeadingLabels : SameLetters(line, h)

\* the text of line before its first en dash, and between its first and second
BeforeDash(line) ==
    SubSeq(line, 1, (CHOOSE k \in 1..Len(line) :
                        Chr(line, k) = ENDASH /\ \A j \in 1..(k - 1) : Chr(line, j) # ENDASH) - 1)
AfterDash(line) ==
    LET rest == SubSeq(line, Len(BeforeDash(line)) + 2, Len(line))
        ends == {k \in 1..Len(rest) : Chr(rest, k) = ENDASH}
    IN  IF ends = {} THEN rest
        ELSE SubSeq(rest, 1, (CHOOSE k \in ends : \A j \in ends : k <= j) - 1)

\* C1 as stated: classify on ["EDUCATION", "MIT - Cambridge, MA" (en dash),
\* "Master of Science", "Aug 2021 | May 2023"] returns normally with exactly one
\* Education entry: institution "MIT", location "Cambridge, MA", degree "Master of
\* Science", dates "Aug 2021 | May 2023".
C1_MitEntry ==
    (lines = EducationSample /\ ParseEnded) =>
        /\ ParseReturned
        /\ Len(data.Education) = 1
        /\ data.Education[1].institution = "MIT"
        /\ data.Education[1].location = "Cambridge, MA"
        /\ data.Education[1].degree = "Master of Science"
        /\ data.Education[1].dates = "Aug 2021 | May 2023"

\* the shape of C1's input: the EDUCATION heading, an institution line (en dash and
\* one of University / Institute / College), a degree line, a dates line
IsEducationTriple(doc) ==
    /\ Len(doc) = 4
    /\ SameLetters(doc[1], "EDUCATION")
    /\ Contains(doc[2], ENDASH) /\ AnyKeyword(doc[2], InstitutionKeywords)
    /\ ~ (Contains(doc[3], ENDASH) /\ AnyKeyword(doc[3], InstitutionKeywords))
    /\ AnyKeyword(doc[3], DegreeKeywords)
    /\ ~ (Contains(doc[4], ENDASH) /\ AnyKeyword(doc[4], InstitutionKeywords))
    /\ ~ AnyKeyword(doc[4], DegreeKeywords)
    /\ Contains(doc[4], "|")
    /\ \A k \in 2..4 : ~ IsLabelVariant(doc[k])

\* C1 amended: an en-dash institution line that contains one of the keywords
\* University, Institute, College, followed by a degree line and a dates line, yields
\* exactly one fully populated entry; on ["EDUCATION", "MIT University - Cambridge, MA",
\* "Master of Science", "Aug 2021 | May 2023"] the entry is institution "MIT University",
\* location "Cambridge, MA", degree "Master of Science", dates "Aug 2021 | May 2023".
C1_KeywordEntry ==
    /\ (lines = EducationKeywordSample /\ ParseEnded) =>
          /\ ParseReturned
          /\ data.Education = <<[institution |-> "MIT University",
                                 location |-> "Cambridge, MA",
                                 degree |-> "Master of Science",
                                 dates |-> "Aug 2021 | May 2023",
                                 coursework |-> ""]>>
    /\ (IsEducationTriple(lines) /\ ParseEnded) =>
          /\ ParseReturned
          /\ data.Education = <<[institution |-> Strip(BeforeDash(lines[2])),
                                 location |-> Strip(AfterDash(lines[2])),
                                 degree |-> lines[3],
                                 dates |-> lines[4],
                                 coursework |-> ""]>>

\* C1's case: the keyword sample has been parsed to the end
C1_Witness ==
    /\ lines = EducationKeywordSample
    /\ ParseReturned
    /\ Len(data.Education) = 1
    /\ data.Education[1].dates = "Aug 2021 | May 2023"

\* the line refines the last entry of the current section (a degree, dates or
\* coursework line of Education; a role, dates or responsibility line of Experience)
\* while that section has no entry yet
RefinesMissingEntry(section, record, line) ==
    /\ ~ IsLabelVariant(line)
    /\ Strip(line) # ""
    /\ \/ /\ section = "EDUCATION"
          /\ Len(record.Education) = 0
          /\ ~ (Contains(line, ENDASH) /\ AnyKeyword(line, InstitutionKeywords))
          /\ \/ AnyKeyword(line, DegreeKeywords)
             \/ Contains(line, "|")
             \/ Contains(line, "Relevant Coursework")
       \/ /\ section = "EXPERIENCE"
          /\ Len(record.Experience) = 0
          /\ ~ (Contains(line, ENDASH) /\ AnyKeyword(line, LocationKeywords))
          /\ \/ AnyKeyword(line, RoleKeywords)
             \/ Contains(line, "|")
             \/ StartsWith(line, "-") \/ StartsWith(line, BULLET)

\* C2: a line that refines the last entry of the current section while that section
\* has no entry yet is silently dropped: no error is raised, the record is unchanged
\* by the line, and the pass continues with the next line.
C2_RefiningLineDropped ==
    [][(pc = "parse_resume" /\ idx <= Len(lines)
          /\ RefinesMissingEntry(current_section, data, lines[idx]))
       => (pc' = "parse_resume" /\ idx' = idx + 1 /\ data' = data /\ error' = NoError)]_vars

\* C3's reading of a Projects document: a title line is numbered "N. ", fully
\* upper-case, or starts with "**"; its title is the line with the numbering prefix
\* and the bold markers stripped
IsTitleLine(line) ==
    \/ NumberedPrefixLen(line) > 0
    \/ IsUpper(line)
    \/ StartsWith(line, "**")

Unnumbered(line) == SubSeq(line, NumberedPrefixLen(line) + 1, Len(line))
Unbolded(text) ==
    LET a == IF StartsWith(text, "**") THEN SubSeq(text, 3, Len(text)) ELSE text
    IN  IF EndsWith(a, "**") THEN SubSeq(a, 1, Len(a) - 2) ELSE a
TitleText(line) == Strip(Unbolded(Strip(Unnumbered(line))))

\* a description line is any other non-blank line that is no heading; its fragment
\* is the line without its bullet glyphs, trimmed
IsDescriptionLine(line) ==
    ~ IsTitleLine(line) /\ ~ IsLabelVariant(line) /\ Strip(line) # ""
Fragment(line) ==
    IF StartsWith(line, "-") \/ StartsWith(line, BULLET) THEN StripBullets(line)
    ELSE Strip(line)

\* a Projects heading, then title lines (each with some title text) each followed
\* by one or more description lines
IsProjectsDoc(doc) ==
    /\ Len(doc) >= 3
    /\ \E h \in {"PROJECTS", "FORAGE PROJECTS", "MARKETING PROJECTS"} : SameLetters(doc[1], h)
    /\ IsTitleLine(doc[2]) /\ ~ IsLabelVariant(doc[2])
    /\ \A k \in 2..Len(doc) :
         \/ IsDescriptionLine(doc[k])
         \/ /\ IsTitleLine(doc[k]) /\ ~ IsLabelVariant(doc[k])
            /\ TitleText(doc[k]) # ""
            /\ k < Len(doc)
            /\ IsDescriptionLine(doc[k + 1])

\* the entries C3 expects of the lines doc[from..]: one per title, in input order
RECURSIVE ExpectedProjects(_, _)
ExpectedProjects(doc, from) ==
    IF from > Len(doc) THEN <<>>
    ELSE LET later == {k \in (from + 1)..Len(doc) : IsTitleLine(doc[k])}
             next == IF later = {} THEN Len(doc) + 1
                     ELSE CHOOSE k \in later : \A j \in later : k <= j
         IN  <<[title |-> TitleText(doc[from]),
                description |-> Join(" ", [k \in 1..(next - from - 1) |->
                                             Fragment(doc[from + k])])]>>
             \o ExpectedProjects(doc, next)

\* C3: in the Projects section, title lines each followed by one or more description
\* lines yield exactly one Project entry per title, in input order, with the title
\* stripped of numbering prefix and bold markers and the description fragments joined
\* with single spaces, the last project being emitted by the end-of-input flush.
C3_OneEntryPerTitle ==
    (IsProjectsDoc(lines) /\ ParseEnded) =>
        (ParseReturned /\ data.Projects = ExpectedProjects(lines, 2))

\* the sample of C3, which the code parses as the claim says
C3_SampleParsed ==
    (lines = ProjectsSample /\ ParseEnded) =>
        /\ ParseReturned
        /\ data.Projects = <<[title |-> "Alpha System",
                              description |-> "built a thing scaled it up"],
                             [title |-> "BETA TOOL", description |-> "more detail line"]>>

\* the text of line before its first colon (the whole line when it has none), and
\* the comma-separated pieces of the text after it
BeforeColon(line) ==
    LET at == {k \in 1..Len(line) : Chr(line, k) = ":"}
    IN  IF at = {} THEN line
        ELSE SubSeq(line, 1, (CHOOSE k \in at : \A j \in at : k <= j) - 1)
AfterColon(line) == SubSeq(line, Len(BeforeColon(line)) + 2, Len(line))

RECURSIVE CommaPieces(_)
CommaPieces(text) ==
    LET at == {k \in 1..Len(text) : Chr(text, k) = ","}
    IN  IF at = {} THEN <<Strip(text)>>
        ELSE LET k == CHOOSE k \in at : \A j \in at : k <= j
             IN  <<Strip(SubSeq(text, 1, k - 1))>> \o CommaPieces(SubSeq(text, k + 1, Len(text)))

\* C4: in the TechnicalSkills section a line that does not start with the bullet
\* appends no entry, and every line that starts with it appends exactly one Skill
\* Entry: category = the text before the first colon with the bullet removed,
\* trimmed; skills = the comma-separated, trimmed pieces of the text after it.
C4_BulletLineAppendsSkill ==
    [][(pc = "parse_resume" /\ idx <= Len(lines) /\ current_section = "TECHNICAL SKILLS"
          /\ ~ IsLabelVariant(lines[idx]) /\ Strip(lines[idx]) # "")
       => IF StartsWith(lines[idx], BULLET)
          THEN data' = [data EXCEPT !.TechnicalSkills =
                          Append(@, [category |->
                                        Strip(SubSeq(BeforeColon(lines[idx]), 2,
                                                     Len(BeforeColon(lines[idx])))),
                                     skills |-> CommaPieces(AfterColon(lines[idx]))])]
          ELSE data' = data]_vars

\* the sample of C4, which the code parses as the claim says
C4_SampleParsed ==
    (lines = SkillsSample /\ ParseEnded) =>
        /\ ParseReturned
        /\ data.TechnicalSkills = <<[category |-> "Languages",
                                     skills |-> <<"Python", "Go", "Rust">>]>>

\* no store operation has been made by this run and the store holds nothing
StoreUntouched ==
    /\ ops = <<>>
    /\ conn = "none"
    /\ tables = {}
    /\ \A t \in Tables : rows[t] = <<>>

RunFailed == pc \in {"except", "handled"}

\* C5 as stated: for any input path whose extension is neither .docx nor .pdf the run
\* fails with the UnsupportedFormat error, and no store action has occurred at the
\* moment of failure.
C5_UnsupportedFormat ==
    (~ (EndsWith(file.path, ".docx") \/ EndsWith(file.path, ".pdf")) /\ pc \notin {"main", "load"})
        => (RunFailed /\ error = UnsupportedFormat /\ StoreUntouched)

\* C5 amended: for any existing input path whose extension is neither .docx nor .pdf
\* the run fails with the UnsupportedFormat error; a path that does not exist fails
\* with FileNotFound whatever its extension; in both cases no store action has
\* occurred at the moment of failure.
C5_UnsupportedExistingPath ==
    /\ (file.exists /\ ~ (EndsWith(file.path, ".docx") \/ EndsWith(file.path, ".pdf"))
          /\ pc \notin {"main", "load"})
          => (RunFailed /\ error = UnsupportedFormat /\ StoreUntouched)
    /\ (~ file.exists /\ pc # "main")
          => (RunFailed /\ error = FileNotFound /\ StoreUntouched)

\* C5's case: an existing .txt file has been refused
C5_Witness ==
    /\ file.path = "resume.txt"
    /\ file.exists
    /\ pc = "except"
    /\ error = UnsupportedFormat

\* the run is validating, loading or classifying, or has failed in one of these
BeforeStore == pc \in {"main", "load", "parse_resume"}
FailedBeforeStore ==
    RunFailed /\ error.type \in {"FileNotFoundError", "ValueError", "ReaderError", "IndexError"}

\* every entry of the record is the row of its table that this run appended
WholeRecordPersisted ==
    /\ tables = Tables
    /\ \A t \in Tables :
         /\ Len(rows[t]) >= Len(data[t])
         /\ \A k \in 1..Len(data[t]) :
              rows[t][Len(rows[t]) - Len(data[t]) + k] = RowOf(t, data[t][k])

\* C6: no store action occurs until loading and classification have both completed;
\* a run that fails in path validation, loading or classification leaves the store
\* as it found it (no table created, no row inserted), and a run that completes has
\* persisted every entry of the whole record.
C6_NoPartialSuccess ==
    /\ []((BeforeStore \/ FailedBeforeStore) => (ops = <<>> /\ conn = "none"))
    /\ [][(BeforeStore \/ FailedBeforeStore) => (tables' = tables /\ rows' = rows)]_vars
    /\ [](pc = "done" => WholeRecordPersisted)

\* C6's case: a second run failed in loading and left the rows of the first in place
C6_Witness ==
    /\ pc = "handled"
    /\ error = ReaderError
    /\ runs = 2
    /\ persisted = 1
    /\ Len(rows.Projects) = 2

\* the section a letter-case variant of a label selects
LabelSection(line) ==
    LET h == CHOOSE h \in HeadingLabels : SameLetters(line, h)
    IN  IF h \in {"FORAGE PROJECTS", "MARKETING PROJECTS"} THEN "PROJECTS" ELSE h

\* C7: heading detection is case-insensitive and exact: a line sets current_section
\* iff it is a letter-case variant of one of the seven labels, every variant of a
\* label selects the same section, a line with extra text leaves current_section
\* alone, and a heading line adds or modifies no entry.
C7_HeadingExact ==
    [][(pc = "parse_resume" /\ idx <= Len(lines))
       => IF IsLabelVariant(lines[idx])
          THEN /\ current_section' = LabelSection(lines[idx])
               /\ data' = data
               /\ project_title' = project_title
               /\ project_desc' = project_desc
               /\ pc' = "parse_resume"
          ELSE current_section' = current_section]_vars

\* C7's case: "education" selected the section, and neither "Education Section" nor
\* "EDUCATION:" changed it
C7_Witness ==
    /\ lines = <<"education", "Education Section", "X Institute ~ Y", "EDUCATION:">>
    /\ ParseReturned
    /\ current_section = "EDUCATION"
    /\ Len(data.Education) = 1

ProjectsHeadings == {"PROJECTS", "FORAGE PROJECTS", "MARKETING PROJECTS"}
IsProjectsHeading(line) == \E h \in ProjectsHeadings : SameLetters(line, h)

\* C8: "FORAGE PROJECTS" and "MARKETING PROJECTS" are normalized to the Projects
\* section: replacing any of the three headings by another yields the same record,
\* and the lines after any of them are dispatched by the Projects rules.
C8_AliasesNormalized ==
    /\ (pc = "parse_resume" /\ idx > 1 /\ IsProjectsHeading(lines[idx - 1]))
          => current_section = "PROJECTS"
    /\ ParseEnded =>
          \A k \in 1..Len(lines) :
             IsProjectsHeading(lines[k]) =>
                \A h \in ProjectsHeadings :
                   LET other == parse_resume([lines EXCEPT ![k] = h])
                   IN  /\ other.data = data
                       /\ other.exc = error.type

\* C8's case: the lines after the alias heading made a Projects entry
C8_Witness ==
    /\ lines = <<"Forage Projects", "1. A", "d">>
    /\ ParseReturned
    /\ data.Projects = <<[title |-> "A", description |-> "d"]>>

\* C9: a line sequence with no recognized heading yields a record with all five
\* sections empty; while current_section is undetermined every line leaves the
\* record and the pending project state unchanged.
C9_NoHeadingNoEntries ==
    /\ current_section = NoSection
          => (data = EmptyData /\ project_title = NoTitle /\ project_desc = <<>>
              /\ error = NoError)
    /\ ((\A k \in 1..Len(lines) : ~ IsLabelVariant(lines[k])) /\ pc # "parse_resume")
          => (ParseReturned /\ data = EmptyData)

\* C9's case: three lines without a heading have been parsed
C9_Witness ==
    /\ lines = <<"1. A", "d", "- b-c">>
    /\ ParseReturned
    /\ current_section = NoSection

\* n copies of rs, one after the other
RECURSIVE Repeated(_, _)
Repeated(rs, n) == IF n = 0 THEN <<>> ELSE rs \o Repeated(rs, n - 1)

\* the record of the input file, the same in every run
FileRecord ==
    IF file.exists /\ (EndsWith(file.path, ".docx") \/ EndsWith(file.path, ".pdf"))
    THEN parse_resume(NonBlankStripped(file.raw)).data
    ELSE EmptyData

\* C10: persistence is append-only and not idempotent: each persist adds exactly one
\* row per entry of each section to its table and changes no existing row, so after
\* persisting the same record n times each table holds n times the entries of its
\* section, in order.
C10_AppendOnly ==
    IF persisted = 0 THEN \A t \in Tables : rows[t] = <<>>
    ELSE LET record == FileRecord
         IN  \A t \in Tables :
                /\ Len(rows[t]) = persisted * Len(record[t])
                /\ rows[t] = Repeated([k \in 1..Len(record[t]) |-> RowOf(t, record[t][k])],
                                      persisted)

\* C10's case: the two projects of the sample have been persisted twice
C10_Witness ==
    /\ file.raw = ProjectsSample
    /\ persisted = 2
    /\ Len(rows.Projects) = 4
    /\ rows.Projects[3] = rows.Projects[1]

\* create_database has returned in this run
SchemaEnsured == pc \in {"insert_data", "verify", "close", "done"}

\* C11: schema creation is idempotent: after create_database has returned one or more
\* times on the same store, in any interleaving with insert_data, the store holds
\* exactly the five tables; a call on a store that already has tables is not made to
\* fail by them; and no call changes the rows already stored, removes a table, or,
\* once the five tables exist, changes the set of tables.
C11_SchemaIdempotent ==
    /\ [](tables \subseteq Tables /\ (SchemaEnsured => tables = Tables))
    /\ [](LET once == CreateTables([tables |-> tables, rows |-> rows], TableOrder)
          IN  /\ once.tables = Tables
              /\ once.rows = rows
              /\ CreateTables(once, TableOrder) = once)
    /\ [](pc = "create_database" => ENABLED (CreateDatabase /\ pc' = "insert_data"))
    /\ [][pc = "create_database" => (rows' = rows /\ tables \subseteq tables')]_vars
    /\ [][tables = Tables => tables' = tables]_vars

\* C11's case: create_database has returned a second time, on the store that holds the
\* rows of the first run
C11_Witness ==
    /\ runs = 2
    /\ pc = "insert_data"
    /\ persisted = 1
    /\ tables = Tables
    /\ Len(rows.Projects) = 2

\* what the handler prints for the exception e
ErrorReport(e) == [label |-> "Error:", value |-> e.msg]

\* C12: every failure raised by a step of the pipeline (path validation, loading,
\* classification, schema creation, persistence, verification queries) reaches the
\* one top-level handler: the raising step is followed by the handler and by nothing
\* else; the handler prints the error as it was raised, re-raises nothing and runs
\* no step of the pipeline again; the run ends there.
C12_SingleHandler ==
    /\ []((error # NoError) <=> (pc \in {"except", "handled"}))
    /\ [][(error' # error /\ error' # NoError) => (error = NoError /\ pc' = "except")]_vars
    /\ [](pc = "except" => ENABLED HandleError)
    /\ [][pc = "except" =>
             /\ pc' = "handled"
             /\ stdout' = Append(stdout, ErrorReport(error))
             /\ UNCHANGED <<file, parser, error, store, conn, ops, runs, persisted>>]_vars
    /\ [](pc = "handled" => stdout = <<ErrorReport(error)>>)
    /\ [][pc = "handled" => (runs' = runs + 1 /\ pc' = "main")]_vars

\* C12's case: the verification queries raised after the inserts were committed, and
\* the handler has reported it
C12_Witness ==
    /\ pc = "handled"
    /\ error = StoreError
    /\ runs = 1
    /\ persisted = 1
    /\ stdout = <<ErrorReport(StoreError)>>

\* the number of operations of kind op in the sequence seq, and the positions of them
Positions(seq, op) == {k \in 1..Len(seq) : seq[k] = op}
Count(seq, op) == Cardinality(Positions(seq, op))

RunEnded == pc \in {"done", "handled"}

\* the inserts of this run are followed by exactly one commit, and by no insert
InsertsCommittedOnce ==
    LET commits == {k \in Positions(ops, "commit") :
                      \A j \in Positions(ops, "insert") : j < k}
        schema == {k \in Positions(ops, "commit") :
                      \E j \in Positions(ops, "insert") : k < j}
    IN  /\ Cardinality(commits \ Positions(SubSeq(ops, 1, Len(TableOrder) + 2), "commit")) = 1
        /\ schema \subseteq Positions(SubSeq(ops, 1, Len(TableOrder) + 2), "commit")

\* the part of C13 that holds: a run opens at most one connection, a run that
\* completes has closed it, and its inserts were made durable by one commit issued
\* after the last of them
C13_OpenedOnceCommittedOnce ==
    /\ Count(ops, "connect") <= 1
    /\ (conn # "none") <=> (Count(ops, "connect") = 1)
    /\ pc = "done" => (conn = "closed" /\ Count(ops, "close") = 1)
    /\ pc \in {"verify", "close", "done"} => InsertsCommittedOnce

\* C13: in every run that opens the datastore connection, the connection is opened
\* exactly once and is closed by the time the run ends, whether the steps after
\* opening succeed or fail; and all inserts of the run are made durable by a single
\* commit issued after the last insert.
C13_ConnectionScoped ==
    /\ Count(ops, "connect") <= 1
    /\ (conn # "none") <=> (Count(ops, "connect") = 1)
    /\ (RunEnded /\ conn # "none") => (conn = "closed" /\ Count(ops, "close") = 1)
    /\ pc \in {"verify", "close", "done"} => InsertsCommittedOnce

\* the line of the loop iteration about to run
ThisLine == lines[idx]

\* a bulleted line, and C14's reading of the text stored for it: the line without its
\* first character, trimmed
StartsWithGlyph(line) == StartsWith(line, "-") \/ StartsWith(line, BULLET)
LeadingGlyphRemoved(line) == Strip(SubSeq(line, 2, Len(line)))

\* C14: for a bulleted line (starting with '-' or the bullet) in the Projects,
\* Experience or Certifications section, the text stored (description fragment,
\* responsibility, certification) is the line with only its leading glyph removed and
\* then trimmed; every other character, later '-' or bullet included, is preserved.
C14_OnlyLeadingGlyphRemoved ==
    [][(pc = "parse_resume" /\ idx <= Len(lines) /\ StartsWithGlyph(ThisLine))
       => /\ current_section = "CERTIFICATIONS" =>
                data'.Certifications =
                    Append(data.Certifications, LeadingGlyphRemoved(ThisLine))
          /\ (current_section = "EXPERIENCE" /\ Len(data.Experience) > 0
                /\ ~ (Contains(ThisLine, ENDASH) /\ AnyKeyword(ThisLine, LocationKeywords))
                /\ ~ AnyKeyword(ThisLine, RoleKeywords) /\ ~ Contains(ThisLine, "|")) =>
                data'.Experience[Len(data.Experience)].responsibilities =
                    Append(data.Experience[Len(data.Experience)].responsibilities,
                           LeadingGlyphRemoved(ThisLine))
          /\ (current_section = "PROJECTS" /\ ~ IsTitleLine(ThisLine)
                /\ project_title # NoTitle /\ project_title # <<"">>) =>
                project_desc' = Append(project_desc, LeadingGlyphRemoved(ThisLine))]_vars

\* the key of the record that the lines of a section are written to
SectionKey(section) ==
    IF section = "EDUCATION" THEN "Education"
    ELSE IF section = "TECHNICAL SKILLS" THEN "TechnicalSkills"
    ELSE IF section = "PROJECTS" THEN "Projects"
    ELSE IF section = "EXPERIENCE" THEN "Experience"
    ELSE IF section = "CERTIFICATIONS" THEN "Certifications"
    ELSE "none"

\* entries new is entries old with one entry appended
OneAppended(old, new) ==
    Len(new) = Len(old) + 1 /\ SubSeq(new, 1, Len(old)) = old

\* entries new is entries old with fields of its last entry changed
LastRefined(old, new) ==
    /\ Len(new) = Len(old)
    /\ Len(old) > 0
    /\ \A k \in 1..(Len(old) - 1) : new[k] = old[k]
    /\ DOMAIN new[Len(new)] = DOMAIN old[Len(old)]

\* the step from record old to record new wrote at most to section key written:
\* nothing, or one entry appended, or (entries with fields) its last entry refined
WritesOnly(old, new, written) ==
    /\ \A t \in Tables \ {written} : new[t] = old[t]
    /\ written \in Tables =>
          \/ new[written] = old[written]
          \/ OneAppended(old[written], new[written])
          \/ written \in {"Education", "Experience"} /\ LastRefined(old[written], new[written])

\* C15: entries are append-only during classification: processing a line, or the
\* end-of-input flush, leaves every section's entries unchanged, or changes fields of
\* only the last entry of the current section, or appends exactly one entry to
\* exactly one section; no entry is removed or reordered, no entry but the last of a
\* section is modified, and the sections not being written are left unchanged.
C15_EntriesAppendOnly ==
    [][pc = "parse_resume" =>
         IF idx <= Len(lines)
         THEN WritesOnly(data, data', SectionKey(current_section'))
         ELSE data' = data \/ (OneAppended(data.Projects, data'.Projects)
                               /\ WritesOnly(data, data', "Projects"))]_vars

\* C15's case: an Experience entry was appended, its role and dates were set, and a
\* responsibility was added to it, the other sections staying empty
C15_Witness ==
    /\ pc = "parse_resume"
    /\ idx = 6
    /\ Len(lines) = 7
    /\ Len(data.Experience) = 1
    /\ data.Experience[1].role = "Founder"
    /\ data.Experience[1].responsibilities = <<"led a team">>
    /\ data.Certifications = <<>>

\* the lines of doc that stand in a Projects block (after a Projects heading and
\* before the next heading of another section), in order
RECURSIVE ProjectsLinesOf(_, _)
ProjectsLinesOf(doc, inProjects) ==
    IF Len(doc) = 0 THEN <<>>
    ELSE IF IsLabelVariant(Head(doc))
    THEN ProjectsLinesOf(Tail(doc), LabelSection(Head(doc)) = "PROJECTS")
    ELSE (IF inProjects THEN <<Head(doc)>> ELSE <<>>)
         \o ProjectsLinesOf(Tail(doc), inProjects)

\* C16: the pending project (title and description lines) is neither flushed nor
\* reset by a heading line or by the lines of other sections: a project pending when
\* another section's heading arrives is still emitted exactly once, the Projects
\* entries appear in the order of their title lines, and a line of a later Projects
\* block that precedes any new title joins the description pending from the earlier
\* block; so the Projects entries are those of the Projects lines taken as one block.
C16_PendingSurvivesSections ==
    /\ [][(pc = "parse_resume" /\ idx <= Len(lines)
             /\ (IsLabelVariant(ThisLine) \/ current_section # "PROJECTS"))
          => (project_title' = project_title /\ project_desc' = project_desc
              /\ data'.Projects = data.Projects)]_vars
    /\ [](ParseReturned =>
            data.Projects =
               parse_resume(<<"PROJECTS">> \o ProjectsLinesOf(lines, FALSE)).data.Projects)
    /\ []((lines = InterleavedSample /\ ParseEnded) =>
            (ParseReturned
             /\ data.Projects = <<[title |-> "A", description |-> "d e f"],
                                  [title |-> "B", description |-> "g"]>>))

\* C16's case: the project pending at the EXPERIENCE heading was continued in the
\* later block and emitted once, before the project of the later block
C16_Witness ==
    /\ lines = InterleavedSample
    /\ ParseReturned
    /\ Len(data.Projects) = 2
    /\ data.Projects[1] = [title |-> "A", description |-> "d e f"]
    /\ Len(data.Experience) = 1

\* the non-blank lines of the Projects blocks of doc, and those of them that are title
\* lines with some title text directly followed by a description line
ProjectsBody(doc) == SelectSeq(ProjectsLinesOf(doc, FALSE), LAMBDA l : Strip(l) # "")
DescribedTitles(body) ==
    {k \in 1..(Len(body) - 1) :
        /\ IsTitleLine(body[k])
        /\ Strip(StripTitleMarkup(body[k])) # ""
        /\ ~ IsTitleLine(body[k + 1])}

\* C17: at every point of the pass a non-empty pending description implies a
\* non-empty pending title; every Project entry emitted has a non-empty title and was
\* built from at least one description line; a title line followed by no description
\* line before the next title or the end of input produces no entry; description
\* lines arriving while the pending title is absent or empty are dropped.
C17_DescriptionNeedsTitle ==
    /\ [](Len(project_desc) > 0 => (project_title # NoTitle /\ project_title # <<"">>))
    /\ [](\A k \in 1..Len(data.Projects) : data.Projects[k].title # "")
    /\ [][(pc = "parse_resume" /\ data'.Projects # data.Projects) =>
             /\ Len(project_desc) > 0
             /\ data'.Projects =
                    Append(data.Projects, [title |-> project_title[1],
                                           description |-> Join(" ", project_desc)])]_vars
    /\ [][(pc = "parse_resume" /\ idx <= Len(lines) /\ current_section = "PROJECTS"
             /\ ~ IsLabelVariant(ThisLine) /\ ~ IsTitleLine(ThisLine)
             /\ (project_title = NoTitle \/ project_title = <<"">>))
          => (project_desc' = <<>> /\ project_title' = project_title /\ data' = data)]_vars
    /\ [](ParseReturned =>
            Len(data.Projects) = Cardinality(DescribedTitles(ProjectsBody(lines))))

\* C17's case: the title line "**" left an empty title, and the description line
\* after it was dropped
C17_Witness ==
    /\ lines = <<"PROJECTS", "**", "d">>
    /\ ParseReturned
    /\ project_title = <<"">>
    /\ project_desc = <<>>
    /\ data.Projects = <<>>

\* the first rule of the Education section, in its fixed order, that line matches
EducationRule(line) ==
    IF Contains(line, ENDASH) /\ AnyKeyword(line, InstitutionKeywords) THEN "start"
    ELSE IF AnyKeyword(line, DegreeKeywords) THEN "degree"
    ELSE IF Contains(line, "|") THEN "dates"
    ELSE IF Contains(line, "Relevant Coursework") THEN "coursework"
    ELSE "none"

\* the first rule of the Experience section, in its fixed order, that line matches
ExperienceRule(line) ==
    IF Contains(line, ENDASH) /\ AnyKeyword(line, LocationKeywords) THEN "start"
    ELSE IF AnyKeyword(line, RoleKeywords) THEN "role"
    ELSE IF Contains(line, "|") THEN "dates"
    ELSE IF StartsWithGlyph(line) THEN "responsibilities"
    ELSE "none"

\* entries new is entries old with at most the field of one rule changed, in the
\* last entry; nothing is changed when there is no entry to refine
OnlyFieldChanged(old, new, field) ==
    /\ Len(new) = Len(old)
    /\ \A k \in 1..(Len(old) - 1) : new[k] = old[k]
    /\ Len(old) > 0 =>
          /\ DOMAIN new[Len(old)] = DOMAIN old[Len(old)]
          /\ \A f \in DOMAIN old[Len(old)] \ {field} : new[Len(old)][f] = old[Len(old)][f]

\* the effect of the one rule applied to line on the entries of its section
OneRuleApplied(old, new, rule, line, blank) ==
    IF rule = "start"
    THEN /\ OneAppended(old, new)
         /\ \A f \in blank : new[Len(new)][f] = ""
    ELSE IF rule = "none" THEN new = old
    ELSE /\ OnlyFieldChanged(old, new, rule)
         /\ (Len(old) > 0 /\ rule \in {"degree", "role", "dates"}) =>
               new[Len(old)][rule] = line
         /\ (Len(old) > 0 /\ rule = "responsibilities") =>
               OneAppended(old[Len(old)][rule], new[Len(old)][rule])

\* C18: in the Education and Experience sections each line applies at most one rule,
\* the first that matches in the fixed order start new entry, degree/role, dates,
\* coursework/responsibility: a line matching several patterns changes one field
\* only (a degree keyword together with '|' sets the degree and leaves the dates; an
\* en dash with an institution/location keyword always starts a new entry), and a
\* line matching no rule changes nothing.
C18_FirstRuleOnly ==
    [][(pc = "parse_resume" /\ idx <= Len(lines) /\ ~ IsLabelVariant(ThisLine)
          /\ Strip(ThisLine) # "" /\ current_section \in {"EDUCATION", "EXPERIENCE"})
       => /\ \A t \in Tables \ {SectionKey(current_section)} : data'[t] = data[t]
          /\ current_section = "EDUCATION" =>
                OneRuleApplied(data.Education, data'.Education, EducationRule(ThisLine),
                               ThisLine, {"degree", "dates", "coursework"})
          /\ current_section = "EXPERIENCE" =>
                OneRuleApplied(data.Experience, data'.Experience, ExperienceRule(ThisLine),
                               ThisLine, {"role", "dates"})]_vars

\* C18's case: a line with a degree keyword and '|' set the degree of the entry and
\* left its dates empty
C18_Witness ==
    /\ lines = <<"Education", "X College ~ Y, MA", "Master | Intern">>
    /\ ParseReturned
    /\ Len(data.Education) = 1
    /\ data.Education[1].degree = "Master | Intern"
    /\ data.Education[1].dates = ""

====
